---- MODULE Spec2Model ----
(***************************************************************************)
(* Model of proxygen::HTTPConnector (proxygen/lib/http/HTTPConnector.cpp): *)
(* the connection lifecycle of one Connector, the sockets it creates, the  *)
(* callbacks the caller receives, and the protocol -> codec resolution.    *)
(*                                                                         *)
(* The Connector runs on one event base thread.  Every handler below is    *)
(* one atomic step up to the point where it hands control to the caller's  *)
(* callback; the caller's callback frame is kept on `stack` until it       *)
(* returns, so that calls the caller makes from inside a callback are      *)
(* modelled as what they are: re-entrant calls.                            *)
(***************************************************************************)
EXTENDS Integers, Sequences, FiniteSets, TLC

\* ------------------------------------------------------------------------
\* Bounds of the model
\* ------------------------------------------------------------------------
\* Number of sockets (connection attempts) one Connector creates in a run.
MaxAttempts == 2

\* Last value of the clock; the clock starts at 1 (0 is the epoch).
MaxTime == 2

\* ------------------------------------------------------------------------
\* Values
\* ------------------------------------------------------------------------
\* nullptr, for socket_ and cb_.
NULL == 0

\* The non-null Callback* given to the constructor.
CallbackPtr == 1

\* A null shared_ptr<std::string> / a null const char*.
NullStr == "nullptr"

Socks == 1..MaxAttempts

\* http2::kProtocolString and friends (proxygen/lib/http/codec/HTTP2Constants).
kProtocolString == "h2"
kProtocolCleartextString == "h2c"
kProtocolDraftString == "h2-14"
kProtocolExperimentalString == "h2-fb"

\* Protocol names the transport may negotiate or the caller may hint.
ProtoNames ==
    {"", "h2", "h2c", "h2-14", "h2-fb", "spdy/3", "spdy/3.1", "http/1.1",
     "bogus"}

\* Names the caller passes to setPlaintextProtocol.
PlaintextHints == {"", "h2", "spdy/3", "bogus"}

\* SPDYCodec::getVersion: the SPDY version of a protocol token, NoVersion
\* (folly::none) for every other name.
NoVersion == "none"

getVersion(protocol) ==
    CASE protocol = "spdy/3"   -> "SPDY3"
      [] protocol = "spdy/3.1" -> "SPDY3_1"
      [] OTHER                 -> NoVersion

\* HTTP1xCodec::supportsNextProtocol.
supportsNextProtocol(npn) == npn \in {"http/1.0", "http/1.1"}

\* AsyncSocketException types the transport reports for a failed connect.
ErrTypes == {"TIMED_OUT", "SSL_ERROR"}

\* The exception AsyncSocket reports to a pending connect callback when the
\* socket is destroyed ("socket closed locally").
ClosedLocally == "END_OF_FILE"

\* What the transport negotiated in a TLS handshake, as connectSuccess reads
\* it back: getApplicationProtocol, getNegotiatedCipherName, getSSLVersion,
\* SSLUtil::getResumeState.
TLSReads ==
    { [appProtocol |-> p, cipher |-> "ECDHE-RSA-AES128-GCM-SHA256",
       version |-> 771, resume |-> "HANDSHAKE"] : p \in ProtoNames }
    \cup { [appProtocol |-> "", cipher |-> NullStr, version |-> 771,
            resume |-> "RESUMED_SESSION_ID"] }

\* The same reads on a plain AsyncSocket: no application protocol.
PlainRead ==
    [appProtocol |-> "", cipher |-> NullStr, version |-> 0, resume |-> "NA"]

\* wangle::TransportInfo(): a default-constructed record.
TransportInfo ==
    [secure |-> FALSE, appProtocol |-> NullStr, sslSetupTime |-> 0,
     sslCipher |-> NullStr, sslVersion |-> 0, sslResume |-> "NA",
     acceptTime |-> 0]

NoCall == [kind |-> "none"]

\* A socket that has not been created yet.
NoSocket == [ssl |-> FALSE, state |-> "unused", err |-> "none", freed |-> FALSE]

\* new AsyncSocket / new AsyncSSLSocket: constructed, connect not yet called.
NewSocket(ssl) == [NoSocket EXCEPT !.ssl = ssl, !.state = "created"]

\* ------------------------------------------------------------------------
\* State
\* ------------------------------------------------------------------------
VARIABLES
    conn,        \* the HTTPConnector's fields
    alive,       \* FALSE once ~HTTPConnector has run
    socks,       \* the sockets created so far: [ssl, state, err, freed]
    now,         \* getCurrentTime()
    stack,       \* caller callbacks that have been entered and not returned
    calls,       \* per socket, the callbacks the caller received for it
    lastCall,    \* the most recent callback the caller received
    codecCall,   \* the most recent makeCodec call and what it returned
    negotiated,  \* what the most recently established socket negotiated
    aborted      \* TRUE once the process has aborted or crashed

vars ==
    <<conn, alive, socks, now, stack, calls, lastCall, codecCall, negotiated,
      aborted>>

\* The part of the state the handlers read and write, as one value, so that
\* a handler that synchronously re-enters another is a composition.
World ==
    [conn |-> conn, socks |-> socks, now |-> now, stack |-> stack,
     calls |-> calls, lastCall |-> lastCall, codecCall |-> codecCall,
     negotiated |-> negotiated, aborted |-> aborted]

Commit(w) ==
    /\ conn' = w.conn
    /\ socks' = w.socks
    /\ now' = w.now
    /\ stack' = w.stack
    /\ calls' = w.calls
    /\ lastCall' = w.lastCall
    /\ codecCall' = w.codecCall
    /\ negotiated' = w.negotiated
    /\ aborted' = w.aborted

\* HTTPConnector::isBusy(): socket_ is set.
isBusy(c) == c.socket_ # NULL

\* ------------------------------------------------------------------------
\* Protocol -> codec resolution
\* ------------------------------------------------------------------------
SPDYCodec(direction, version) ==
    [type |-> "SPDY", direction |-> direction, version |-> version,
     force1_1 |-> FALSE]

HTTP2Codec(direction) ==
    [type |-> "HTTP2", direction |-> direction, version |-> NoVersion,
     force1_1 |-> FALSE]

HTTP1xCodec(direction, force1_1) ==
    [type |-> "HTTP1x", direction |-> direction, version |-> NoVersion,
     force1_1 |-> force1_1]

\* makeCodec building every SPDY codec with one fixed version.
makeCodec_fixedSpdyVersion(chosenProto, forceHTTP1xCodecTo1_1) ==
    LET spdyVersion == getVersion(chosenProto) IN
    IF spdyVersion # NoVersion
    THEN SPDYCodec("UPSTREAM", "SPDY3")
    ELSE IF \/ chosenProto = kProtocolString
            \/ chosenProto = kProtocolCleartextString
            \/ chosenProto = kProtocolDraftString
            \/ chosenProto = kProtocolExperimentalString
    THEN HTTP2Codec("UPSTREAM")
    ELSE HTTP1xCodec("UPSTREAM", forceHTTP1xCodecTo1_1)

\* makeCodec without the comparison against the draft identifier.
makeCodec_missingDraft(chosenProto, forceHTTP1xCodecTo1_1) ==
    LET spdyVersion == getVersion(chosenProto) IN
    IF spdyVersion # NoVersion
    THEN SPDYCodec("UPSTREAM", spdyVersion)
    ELSE IF \/ chosenProto = kProtocolString
            \/ chosenProto = kProtocolCleartextString
            \/ chosenProto = kProtocolExperimentalString
    THEN HTTP2Codec("UPSTREAM")
    ELSE HTTP1xCodec("UPSTREAM", forceHTTP1xCodecTo1_1)

\* makeCodec not passing the flag on to the HTTP/1.x codec.
makeCodec_ignoreForce(chosenProto, forceHTTP1xCodecTo1_1) ==
    LET spdyVersion == getVersion(chosenProto) IN
    IF spdyVersion # NoVersion
    THEN SPDYCodec("UPSTREAM", spdyVersion)
    ELSE IF \/ chosenProto = kProtocolString
            \/ chosenProto = kProtocolCleartextString
            \/ chosenProto = kProtocolDraftString
            \/ chosenProto = kProtocolExperimentalString
    THEN HTTP2Codec("UPSTREAM")
    ELSE HTTP1xCodec("UPSTREAM", FALSE)

\* makeCodec returning no codec for a name it logs as unimplemented.
makeCodec_nullOnUnknown(chosenProto, forceHTTP1xCodecTo1_1) ==
    LET spdyVersion == getVersion(chosenProto) IN
    IF spdyVersion # NoVersion
    THEN SPDYCodec("UPSTREAM", spdyVersion)
    ELSE IF \/ chosenProto = kProtocolString
            \/ chosenProto = kProtocolCleartextString
            \/ chosenProto = kProtocolDraftString
            \/ chosenProto = kProtocolExperimentalString
    THEN HTTP2Codec("UPSTREAM")
    ELSE IF chosenProto # "" /\ ~supportsNextProtocol(chosenProto)
    THEN [type |-> "nullptr", direction |-> "UPSTREAM", version |-> NoVersion,
          force1_1 |-> FALSE]
    ELSE HTTP1xCodec("UPSTREAM", forceHTTP1xCodecTo1_1)

makeCodec(chosenProto, forceHTTP1xCodecTo1_1) ==
    LET spdyVersion == getVersion(chosenProto) IN
    IF spdyVersion # NoVersion
    THEN SPDYCodec("UPSTREAM", spdyVersion)
    ELSE IF \/ chosenProto = kProtocolString
            \/ chosenProto = kProtocolCleartextString
            \/ chosenProto = kProtocolDraftString
            \/ chosenProto = kProtocolExperimentalString
    THEN HTTP2Codec("UPSTREAM")
    ELSE HTTP1xCodec("UPSTREAM", forceHTTP1xCodecTo1_1)

\* The LOG(ERROR) of makeCodec's last branch.
makeCodecLogsError(chosenProto) ==
    /\ getVersion(chosenProto) = NoVersion
    /\ chosenProto \notin {kProtocolString, kProtocolCleartextString,
                           kProtocolDraftString, kProtocolExperimentalString}
    /\ chosenProto # ""
    /\ ~supportsNextProtocol(chosenProto)

\* ------------------------------------------------------------------------
\* The caller's callback (HTTPConnector::Callback)
\* ------------------------------------------------------------------------
\* The frame of a caller callback that has been entered.  resume names the
\* socket of a connect()/connectSSL() call that made this callback from inside
\* its own socket_.reset(sock) and goes on when the callback returns; NULL
\* when the callback was made by a handler that has nothing left to do.
Frame(cb) == [cb |-> cb, resume |-> NULL]

\* cb_->connectSuccess(session): the caller receives the session and its
\* callback frame is entered.
Callback_connectSuccess(w, session) ==
    LET call == [kind |-> "connectSuccess", session |-> session] IN
    [w EXCEPT !.calls[session.sock] = Append(@, "connectSuccess"),
              !.lastCall = call,
              !.stack = Append(@, Frame("connectSuccess"))]

\* cb_->connectError(ex).
Callback_connectError(w, ex) ==
    LET call == [kind |-> "connectError", ex |-> ex] IN
    [w EXCEPT !.calls[ex.sock] = Append(@, "connectError"),
              !.lastCall = call,
              !.stack = Append(@, Frame("connectError"))]

\* ------------------------------------------------------------------------
\* HTTPConnector's handlers
\* ------------------------------------------------------------------------
RECURSIVE connectErr(_, _)
RECURSIVE AsyncSocket_destroy(_, _)
RECURSIVE socket_reset(_, _)

\* socket_.reset(p) of std::unique_ptr: the pointer is replaced first, then
\* the old socket is destroyed.
socket_reset(w, p) ==
    LET old == w.conn.socket_
        w1 == [w EXCEPT !.conn.socket_ = p]
    IN IF old # NULL THEN AsyncSocket_destroy(w1, old) ELSE w1

\* The deleter of AsyncSocket::UniquePtr: the socket is closed; a connect
\* callback that is still pending is failed synchronously.
AsyncSocket_destroy(w, sock) ==
    IF w.socks[sock].state = "connecting"
    THEN connectErr([w EXCEPT !.socks[sock].state = "closed",
                              !.socks[sock].err = ClosedLocally,
                              !.socks[sock].freed = TRUE],
                    [type |-> ClosedLocally, sock |-> sock])
    ELSE [w EXCEPT !.socks[sock].freed = TRUE]

\* connectErr swallowing the transport's event.
connectErr_dropEvent(w, ex) ==
    w

\* connectErr without its socket_.reset().
connectErr_keepSocket(w, ex) ==
    IF w.conn.cb_ # NULL
    THEN Callback_connectError(w, ex)
    ELSE w

\* connectErr reporting to the callback that was attached at construction,
\* whether or not cb_ is detached.
connectErr_ignoreDetach(w, ex) ==
    LET w1 == socket_reset(w, NULL) IN
    Callback_connectError(w1, ex)

\* connectErr reporting an error of its own in place of the transport's.
connectErr_reclassify(w, ex) ==
    LET w1 == socket_reset(w, NULL) IN
    IF w1.conn.cb_ # NULL
    THEN Callback_connectError(w1, [ex EXCEPT !.type = "INTERNAL_ERROR"])
    ELSE w1

\* HTTPConnector::connectErr
connectErr(w, ex) ==
    LET w1 == socket_reset(w, NULL) IN
    IF w1.conn.cb_ # NULL
    THEN Callback_connectError(w1, ex)
    ELSE w1

\* reset without the final cb_ = cb.
reset_noRestore(w) ==
    IF w.conn.socket_ # NULL
    THEN socket_reset([w EXCEPT !.conn.cb_ = NULL], NULL)
    ELSE w

\* reset letting go of the socket without destroying it: the cancelled
\* connect stays pending at the transport.
reset_release(w) ==
    [w EXCEPT !.conn.socket_ = NULL]

\* reset discarding the socket with the callback still attached.
reset_keepCallback(w) ==
    IF w.conn.socket_ # NULL
    THEN socket_reset(w, NULL)
    ELSE w

\* HTTPConnector::reset
reset(w) ==
    IF w.conn.socket_ # NULL
    THEN LET cb == w.conn.cb_
             w1 == [w EXCEPT !.conn.cb_ = NULL]
             w2 == socket_reset(w1, NULL)
         IN [w2 EXCEPT !.conn.cb_ = cb]
    ELSE w

\* connectSuccess handing the socket to the Session without giving it up
\* (socket_ still set when the Session exists and the callback is made).
connectSuccess_keepSocket(w, t) ==
    IF w.conn.cb_ = NULL
    THEN w
    ELSE IF w.conn.socket_ = NULL
    THEN [w EXCEPT !.aborted = TRUE]
    ELSE
    LET c == w.conn
        sslSocket == IF w.socks[c.socket_].ssl THEN c.socket_ ELSE NULL
        info1 == [c.transportInfo_ EXCEPT !.acceptTime = w.now]
        info2 == IF info1.secure /\ sslSocket # NULL
                 THEN [info1 EXCEPT
                          !.appProtocol = t.appProtocol,
                          !.sslSetupTime = w.now - c.connectStart_,
                          !.sslCipher = t.cipher,
                          !.sslVersion = t.version,
                          !.sslResume = t.resume]
                 ELSE info1
        chosenProto == IF info1.secure THEN t.appProtocol
                                       ELSE c.plaintextProtocol_
        codec == makeCodec(chosenProto, c.forceHTTP1xCodecTo1_1_)
        session == [sock |-> c.socket_, codec |-> codec, info |-> info2]
        w1 == [w EXCEPT !.conn.transportInfo_ = info2,
                        !.codecCall = [kind |-> "makeCodec",
                                       chosenProto |-> chosenProto,
                                       force |-> c.forceHTTP1xCodecTo1_1_,
                                       codec |-> codec,
                                       logged |-> makeCodecLogsError(chosenProto)]]
    IN Callback_connectSuccess(w1, session)

\* connectSuccess falling back to the plaintext hint when a secure socket
\* negotiated no application protocol.
connectSuccess_hintFallback(w, t) ==
    IF w.conn.cb_ = NULL
    THEN w
    ELSE IF w.conn.socket_ = NULL
    THEN [w EXCEPT !.aborted = TRUE]
    ELSE
    LET c == w.conn
        sslSocket == IF w.socks[c.socket_].ssl THEN c.socket_ ELSE NULL
        info1 == [c.transportInfo_ EXCEPT !.acceptTime = w.now]
        info2 == IF info1.secure /\ sslSocket # NULL
                 THEN [info1 EXCEPT
                          !.appProtocol = t.appProtocol,
                          !.sslSetupTime = w.now - c.connectStart_,
                          !.sslCipher = t.cipher,
                          !.sslVersion = t.version,
                          !.sslResume = t.resume]
                 ELSE info1
        chosenProto == IF info1.secure /\ t.appProtocol # ""
                       THEN t.appProtocol
                       ELSE c.plaintextProtocol_
        codec == makeCodec(chosenProto, c.forceHTTP1xCodecTo1_1_)
        session == [sock |-> c.socket_, codec |-> codec, info |-> info2]
        w1 == [w EXCEPT !.conn.transportInfo_ = info2,
                        !.conn.socket_ = NULL,
                        !.codecCall = [kind |-> "makeCodec",
                                       chosenProto |-> chosenProto,
                                       force |-> c.forceHTTP1xCodecTo1_1_,
                                       codec |-> codec,
                                       logged |-> makeCodecLogsError(chosenProto)]]
    IN Callback_connectSuccess(w1, session)

\* connectSuccess without the check for a detached callback.
connectSuccess_noDetachCheck(w, t) ==
    IF w.conn.socket_ = NULL
    THEN [w EXCEPT !.aborted = TRUE]
    ELSE
    LET c == w.conn
        sslSocket == IF w.socks[c.socket_].ssl THEN c.socket_ ELSE NULL
        info1 == [c.transportInfo_ EXCEPT !.acceptTime = w.now]
        info2 == IF info1.secure /\ sslSocket # NULL
                 THEN [info1 EXCEPT
                          !.appProtocol = t.appProtocol,
                          !.sslSetupTime = w.now - c.connectStart_,
                          !.sslCipher = t.cipher,
                          !.sslVersion = t.version,
                          !.sslResume = t.resume]
                 ELSE info1
        chosenProto == IF info1.secure THEN t.appProtocol
                                       ELSE c.plaintextProtocol_
        codec == makeCodec(chosenProto, c.forceHTTP1xCodecTo1_1_)
        session == [sock |-> c.socket_, codec |-> codec, info |-> info2]
        w1 == [w EXCEPT !.conn.transportInfo_ = info2,
                        !.conn.socket_ = NULL,
                        !.codecCall = [kind |-> "makeCodec",
                                       chosenProto |-> chosenProto,
                                       force |-> c.forceHTTP1xCodecTo1_1_,
                                       codec |-> codec,
                                       logged |-> makeCodecLogsError(chosenProto)]]
    IN Callback_connectSuccess(w1, session)

\* HTTPConnector::connectSuccess; t is what the socket answers to the
\* handler's reads of the negotiated parameters.
connectSuccess(w, t) ==
    IF w.conn.cb_ = NULL
    THEN w
    ELSE IF w.conn.socket_ = NULL
    THEN \* socket_->getLocalAddress() through a null socket_
         [w EXCEPT !.aborted = TRUE]
    ELSE
    LET c == w.conn
        sslSocket == IF w.socks[c.socket_].ssl THEN c.socket_ ELSE NULL
        info1 == [c.transportInfo_ EXCEPT !.acceptTime = w.now]
        info2 == IF info1.secure /\ sslSocket # NULL
                 THEN [info1 EXCEPT
                          !.appProtocol = t.appProtocol,
                          !.sslSetupTime = w.now - c.connectStart_,
                          !.sslCipher = t.cipher,
                          !.sslVersion = t.version,
                          !.sslResume = t.resume]
                 ELSE info1
        chosenProto == IF info1.secure THEN t.appProtocol
                                       ELSE c.plaintextProtocol_
        codec == makeCodec(chosenProto, c.forceHTTP1xCodecTo1_1_)
        session == [sock |-> c.socket_, codec |-> codec, info |-> info2]
        w1 == [w EXCEPT !.conn.transportInfo_ = info2,
                        !.conn.socket_ = NULL,
                        !.codecCall = [kind |-> "makeCodec",
                                       chosenProto |-> chosenProto,
                                       force |-> c.forceHTTP1xCodecTo1_1_,
                                       codec |-> codec,
                                       logged |-> makeCodecLogsError(chosenProto)]]
    IN Callback_connectSuccess(w1, session)

\* ------------------------------------------------------------------------
\* The transport (folly::AsyncSocket / AsyncSSLSocket)
\* ------------------------------------------------------------------------
\* The next socket `new AsyncSocket` returns.
NewSock(w) ==
    CHOOSE s \in Socks :
        /\ w.socks[s].state = "unused"
        /\ \A r \in Socks : w.socks[r].state = "unused" => s <= r

\* What sock->connect(this, ...) does before it returns: the connect stays
\* pending, or it fails at once (connectErr is called from inside connect),
\* or, on a plain socket, it completes at once (connectSuccess is called
\* from inside connect).
ConnectOutcomes(ssl) ==
    { [kind |-> "pending", type |-> "none"] }
    \cup { [kind |-> "fail", type |-> e] : e \in ErrTypes }
    \cup (IF ssl THEN {} ELSE { [kind |-> "success", type |-> "none"] })

\* sock->connect on a socket that has already been destroyed is a use after
\* free: the process may crash, or the freed object may still act as the
\* socket it was.
DanglingOutcomes(ssl) ==
    ConnectOutcomes(ssl) \cup { [kind |-> "crash", type |-> "none"] }

AsyncSocket_connect(w, sock, outcome) ==
    CASE outcome.kind = "crash" ->
            [w EXCEPT !.aborted = TRUE]
      [] outcome.kind = "pending" ->
            [w EXCEPT !.socks[sock].state = "connecting"]
      [] outcome.kind = "fail" ->
            connectErr([w EXCEPT !.socks[sock].state = "failed",
                                 !.socks[sock].err = outcome.type],
                       [type |-> outcome.type, sock |-> sock])
      [] outcome.kind = "success" ->
            connectSuccess([w EXCEPT !.socks[sock].state = "established",
                                     !.negotiated = PlainRead],
                           PlainRead)

\* The end of connect and connectSSL: connectStart_ is taken and the socket
\* is told to connect.
connect_resume(w, sock, outcome) ==
    LET w3 == [w EXCEPT !.conn.connectStart_ = w.now]
    IN AsyncSocket_connect(w3, sock, outcome)

\* connect clearing the secure flag of the transport info it finds, without
\* replacing the record.
connect_secureFlagOnly(w, outcome) ==
    LET sock == NewSock(w)
        w1 == [w EXCEPT !.conn.transportInfo_.secure = FALSE,
                        !.socks[sock] = NewSocket(FALSE)]
        w2 == socket_reset(w1, sock)
    IN IF Len(w2.stack) > Len(w.stack)
       THEN [w2 EXCEPT !.stack[Len(w2.stack)].resume = sock]
       ELSE connect_resume(w2, sock, outcome)

\* connect leaving the transport info of the previous attempt in place.
connect_keepInfo(w, outcome) ==
    LET sock == NewSock(w)
        w1 == [w EXCEPT !.socks[sock] = NewSocket(FALSE)]
        w2 == socket_reset(w1, sock)
        w3 == [w2 EXCEPT !.conn.connectStart_ = w2.now]
    IN AsyncSocket_connect(w3, sock, outcome)

\* HTTPConnector::connect.  When socket_.reset(sock) has called the caller back
\* (the call was made while busy), the rest of the function runs after that
\* callback has returned.
connect(w, outcome) ==
    LET sock == NewSock(w)
        w1 == [w EXCEPT !.conn.transportInfo_ =
                            [TransportInfo EXCEPT !.secure = FALSE],
                        !.socks[sock] = NewSocket(FALSE)]
        w2 == socket_reset(w1, sock)
    IN IF Len(w2.stack) > Len(w.stack)
       THEN [w2 EXCEPT !.stack[Len(w2.stack)].resume = sock]
       ELSE connect_resume(w2, sock, outcome)

\* connectSSL not marking the transport info secure.
connectSSL_notSecure(w, outcome) ==
    LET sslSock == NewSock(w)
        w1 == [w EXCEPT !.conn.transportInfo_ = TransportInfo,
                        !.socks[sslSock] = NewSocket(TRUE)]
        w2 == socket_reset(w1, sslSock)
        w3 == [w2 EXCEPT !.conn.connectStart_ = w2.now]
    IN AsyncSocket_connect(w3, sslSock, outcome)

\* HTTPConnector::connectSSL.  When socket_.reset(sslSock) has called the caller back
\* (the call was made while busy), the rest of the function runs after that
\* callback has returned.
connectSSL(w, outcome) ==
    LET sslSock == NewSock(w)
        w1 == [w EXCEPT !.conn.transportInfo_ =
                            [TransportInfo EXCEPT !.secure = TRUE],
                        !.socks[sslSock] = NewSocket(TRUE)]
        w2 == socket_reset(w1, sslSock)
    IN IF Len(w2.stack) > Len(w.stack)
       THEN [w2 EXCEPT !.stack[Len(w2.stack)].resume = sslSock]
       ELSE connect_resume(w2, sslSock, outcome)

\* timeElapsed measuring from connectStart_ without asking whether it was
\* ever set.
timeElapsed_noInitCheck(w) == w.now - w.conn.connectStart_

\* HTTPConnector::timeElapsed; the time point of the epoch (0) is the one
\* timePointInitialized takes for "never set".
timeElapsed(w) ==
    IF w.conn.connectStart_ # 0
    THEN w.now - w.conn.connectStart_
    ELSE 0

\* ------------------------------------------------------------------------
\* Initial state: HTTPConnector(callback, timeout)
\* ------------------------------------------------------------------------
Init ==
    /\ conn = [cb_ |-> CallbackPtr,
               socket_ |-> NULL,
               transportInfo_ |-> TransportInfo,
               connectStart_ |-> 0,
               plaintextProtocol_ |-> "",
               forceHTTP1xCodecTo1_1_ |-> FALSE]
    /\ alive = TRUE
    /\ socks = [s \in Socks |-> NoSocket]
    /\ now = 1
    /\ stack = <<>>
    /\ calls = [s \in Socks |-> <<>>]
    /\ lastCall = NoCall
    /\ codecCall = NoCall
    /\ negotiated = NoCall
    /\ aborted = FALSE

\* ------------------------------------------------------------------------
\* Actions
\* ------------------------------------------------------------------------
\* The caller calls connect(); DCHECK(!isBusy()) is the precondition the
\* caller keeps.
Connect ==
    /\ alive
    /\ ~aborted
    /\ ~isBusy(conn)
    /\ \E s \in Socks : socks[s].state = "unused"
    /\ \E outcome \in ConnectOutcomes(FALSE) : Commit(connect(World, outcome))
    /\ UNCHANGED alive

\* The caller calls connectSSL().
ConnectSSL ==
    /\ alive
    /\ ~aborted
    /\ ~isBusy(conn)
    /\ \E s \in Socks : socks[s].state = "unused"
    /\ \E outcome \in ConnectOutcomes(TRUE) : Commit(connectSSL(World, outcome))
    /\ UNCHANGED alive

\* The caller calls reset().
Reset ==
    /\ alive
    /\ ~aborted
    /\ Commit(reset(World))
    /\ UNCHANGED alive

\* The caller destroys the Connector: ~HTTPConnector.
Destructor ==
    /\ alive
    /\ ~aborted
    /\ Commit(reset(World))
    /\ alive' = FALSE

\* The caller calls setPlaintextProtocol().
SetPlaintextProtocol ==
    /\ alive
    /\ ~aborted
    /\ \E plaintextProto \in PlaintextHints :
          conn' = [conn EXCEPT !.plaintextProtocol_ = plaintextProto]
    /\ UNCHANGED <<alive, socks, now, stack, calls, lastCall, codecCall,
                   negotiated, aborted>>

\* The caller calls setHTTPVersionOverride().
SetHTTPVersionOverride ==
    /\ alive
    /\ ~aborted
    /\ \E enabled \in BOOLEAN :
          conn' = [conn EXCEPT !.forceHTTP1xCodecTo1_1_ = enabled]
    /\ UNCHANGED <<alive, socks, now, stack, calls, lastCall, codecCall,
                   negotiated, aborted>>

\* The event base runs a pending socket's completion: the connect (and, on
\* an SSL socket, the handshake) succeeded.
TransportSuccess ==
    /\ ~aborted
    /\ stack = <<>>
    /\ \E sock \in Socks :
         /\ socks[sock].state = "connecting"
         /\ \E t \in (IF socks[sock].ssl THEN TLSReads ELSE {PlainRead}) :
              Commit(connectSuccess(
                        [World EXCEPT !.socks[sock].state = "established",
                                      !.negotiated = t], t))
    /\ UNCHANGED alive

\* The event base runs a pending socket's completion: the connect failed.
TransportError ==
    /\ ~aborted
    /\ stack = <<>>
    /\ \E sock \in Socks, e \in ErrTypes :
         /\ socks[sock].state = "connecting"
         /\ Commit(connectErr([World EXCEPT !.socks[sock].state = "failed",
                                            !.socks[sock].err = e],
                              [type |-> e, sock |-> sock]))
    /\ UNCHANGED alive

\* The caller's callback returns into the handler that called it; the
\* handler has nothing left to do.
CallbackReturn ==
    /\ ~aborted
    /\ stack # <<>>
    /\ stack[Len(stack)].resume = NULL
    /\ stack' = SubSeq(stack, 1, Len(stack) - 1)
    /\ UNCHANGED <<conn, alive, socks, now, calls, lastCall, codecCall,
                   negotiated, aborted>>

\* The clock advances.
Tick ==
    /\ ~aborted
    /\ now < MaxTime
    /\ now' = now + 1
    /\ UNCHANGED <<conn, alive, socks, stack, calls, lastCall, codecCall,
                   negotiated, aborted>>

Next ==
    \/ Connect
    \/ ConnectSSL
    \/ Reset
    \/ Destructor
    \/ SetPlaintextProtocol
    \/ SetHTTPVersionOverride
    \/ TransportSuccess
    \/ TransportError
    \/ CallbackReturn
    \/ Tick

Spec == Init /\ [][Next]_vars

\* The same program under the scheduling the event base guarantees: a
\* callback the caller has been given returns, and a socket whose connect is
\* pending reports its terminal event (the connect is bounded by timeoutMs).
\* The two setters only store a value that makeCodec reads; they take no part
\* in the lifecycle and are left out of this specification.
NextFair ==
    \/ Connect
    \/ ConnectSSL
    \/ Reset
    \/ Destructor
    \/ TransportSuccess
    \/ TransportError
    \/ CallbackReturn
    \/ Tick

FairSpec ==
    /\ Init
    /\ [][NextFair]_vars
    /\ WF_vars(CallbackReturn)
    /\ WF_vars(TransportSuccess \/ TransportError)

\* ------------------------------------------------------------------------
\* A transport that completes a connect while it is being torn down
\* ------------------------------------------------------------------------
\* reset() on a Connector whose socket, as socket_.reset() destroys it,
\* reports its pending connect as succeeded instead of failing it: the
\* success event arrives while reset() has cb_ detached.  folly's AsyncSocket
\* fails a pending connect when it is destroyed (AsyncSocket_destroy), so
\* this step is not part of Next.
ResetSuccessInTeardown ==
    /\ alive
    /\ ~aborted
    /\ isBusy(conn)
    /\ socks[conn.socket_].state = "connecting"
    /\ \E t \in (IF socks[conn.socket_].ssl THEN TLSReads ELSE {PlainRead}) :
          LET sock == conn.socket_
              cb == conn.cb_
              w1 == [World EXCEPT !.conn.cb_ = NULL]
              w2 == [w1 EXCEPT !.conn.socket_ = NULL,
                               !.socks[sock].state = "established",
                               !.socks[sock].freed = TRUE]
              w3 == connectSuccess(w2, t)
          IN Commit([w3 EXCEPT !.conn.cb_ = cb])
    /\ UNCHANGED alive

NextDetached ==
    \/ Next
    \/ ResetSuccessInTeardown

SpecDetached == Init /\ [][NextDetached]_vars

\* ------------------------------------------------------------------------
\* A caller that breaks the precondition of connect and connectSSL
\* ------------------------------------------------------------------------
\* The caller calls connect() while an attempt is in flight.  A build with
\* DCHECKs aborts; a build without them runs the function.
ConnectBusy ==
    /\ alive
    /\ ~aborted
    /\ isBusy(conn)
    /\ \E s \in Socks : socks[s].state = "unused"
    /\ \/ Commit([World EXCEPT !.aborted = TRUE])
       \/ \E outcome \in ConnectOutcomes(FALSE) :
             Commit(connect(World, outcome))
    /\ UNCHANGED alive

\* The caller calls connectSSL() while an attempt is in flight.
ConnectSSLBusy ==
    /\ alive
    /\ ~aborted
    /\ isBusy(conn)
    /\ \E s \in Socks : socks[s].state = "unused"
    /\ \/ Commit([World EXCEPT !.aborted = TRUE])
       \/ \E outcome \in ConnectOutcomes(TRUE) :
             Commit(connectSSL(World, outcome))
    /\ UNCHANGED alive

\* The callback made from inside connect()'s socket_.reset(sock) returns and
\* connect() goes on with the socket it created.
ResumeConnect ==
    /\ ~aborted
    /\ stack # <<>>
    /\ stack[Len(stack)].resume # NULL
    /\ LET sock == stack[Len(stack)].resume
           w == [World EXCEPT !.stack = SubSeq(stack, 1, Len(stack) - 1)]
       IN \E outcome \in (IF socks[sock].freed
                           THEN DanglingOutcomes(socks[sock].ssl)
                           ELSE ConnectOutcomes(socks[sock].ssl)) :
             Commit(connect_resume(w, sock, outcome))
    /\ UNCHANGED alive

NextMisuse ==
    \/ Next
    \/ ConnectBusy
    \/ ConnectSSLBusy
    \/ ResumeConnect

SpecMisuse == Init /\ [][NextMisuse]_vars

TypeOK ==
    /\ conn.cb_ \in {NULL, CallbackPtr}
    /\ conn.socket_ \in Socks \cup {NULL}
    /\ alive \in BOOLEAN
    /\ aborted \in BOOLEAN
    /\ now \in 1..MaxTime

\* ------------------------------------------------------------------------
\* Properties
\* ------------------------------------------------------------------------
\* The step in which the transport reports success for socket s.
Succeeds(s) == socks[s].state # "established" /\ socks'[s].state = "established"

\* The step in which the transport reports a connect error for socket s.
Fails(s) == socks[s].state # "failed" /\ socks'[s].state = "failed"

\* The name the codec of socket s is to be resolved from, in a step in which
\* s succeeds: what the socket negotiated, or the caller's plaintext hint.
ChosenName(s) ==
    IF socks'[s].ssl THEN negotiated'.appProtocol ELSE conn.plaintextProtocol_

HTTP2Names ==
    {kProtocolString, kProtocolCleartextString, kProtocolDraftString,
     kProtocolExperimentalString}

\* C1: isBusy() is true for as long as the attempt's connect is pending at
\* the transport (no connectSuccess/connectErr fired yet), and false once
\* the terminal transport callback of every started attempt has fired.
C1_BusyUntilTerminal ==
    /\ \A s \in Socks :
          socks[s].state = "connecting" => isBusy(conn) /\ conn.socket_ = s
    /\ (\A s \in Socks : socks[s].state # "connecting") => ~isBusy(conn)

\* One attempt has failed and the Connector is idle for it; the next one is
\* in flight and the Connector is busy.
C1_Witness ==
    /\ socks[1].state = "failed"
    /\ socks[2].state = "connecting"
    /\ isBusy(conn)

\* C2: reset() and ~HTTPConnector never invoke the caller's callback, leave
\* the callback attached and leave the Connector idle.
C2_ResetSilent ==
    [][(Reset \/ Destructor) =>
          /\ calls' = calls
          /\ lastCall' = lastCall
          /\ stack' = stack
          /\ conn'.cb_ = conn.cb_
          /\ ~isBusy(conn')]_vars

\* Attempt 1 was reset while in flight (its connect was failed by the
\* teardown), the caller heard nothing of it, and attempt 2 was started.
C2_Witness ==
    /\ socks[1].state = "closed"
    /\ socks[1].err = ClosedLocally
    /\ calls[1] = <<>>
    /\ socks[2].state = "connecting"
    /\ conn.socket_ = 2

\* C3 as stated: every attempt that is no longer in flight has reported
\* exactly one outcome to the caller.
C3_Original ==
    \A s \in Socks :
        socks[s].state \notin {"unused", "connecting"} => Len(calls[s]) = 1

\* C3, amended: every connect/connectSSL starts exactly one attempt, and an
\* attempt reports at most one outcome: exactly one connectSuccess once its
\* transport succeeded, exactly one connectError once its transport failed,
\* and none while it is in flight or after it was cancelled by reset() or by
\* destroying the Connector.
C3_OneOutcome ==
    [][/\ (Connect \/ ConnectSSL) =>
             Cardinality({s \in Socks : /\ socks[s].state = "unused"
                                        /\ socks'[s].state # "unused"}) = 1
       /\ \A s \in Socks :
             /\ Len(calls'[s]) <= 1
             /\ socks'[s].state = "established"
                   => calls'[s] = <<"connectSuccess">>
             /\ socks'[s].state = "failed" => calls'[s] = <<"connectError">>
             /\ socks'[s].state \in {"unused", "connecting", "closed"}
                   => calls'[s] = <<>>]_vars

\* One attempt was cancelled and reported nothing; the next one reported its
\* success, once.
C3_Witness ==
    /\ socks[1].state = "closed"
    /\ calls[1] = <<>>
    /\ socks[2].state = "established"
    /\ calls[2] = <<"connectSuccess">>

\* C4: when the transport reports a connect error, the caller's connectError
\* receives that very error, the socket is discarded, nothing is in flight
\* afterwards, and the attempt never has a Session delivered.
C4_ErrorVerbatim ==
    [][\A s \in Socks :
          /\ Fails(s) =>
                /\ lastCall' = [kind |-> "connectError",
                                ex |-> [type |-> socks'[s].err, sock |-> s]]
                /\ socks'[s].freed
                /\ ~isBusy(conn')
                /\ \A r \in Socks : socks'[r].state # "connecting"
          /\ socks'[s].state = "failed" => calls'[s] = <<"connectError">>]_vars

\* A TLS attempt failed with SSL_ERROR and the caller was told so.
C4_Witness ==
    /\ socks[1].ssl
    /\ socks[1].state = "failed"
    /\ socks[1].err = "SSL_ERROR"
    /\ lastCall = [kind |-> "connectError",
                   ex |-> [type |-> "SSL_ERROR", sock |-> 1]]

\* C5: makeCodec yields the upstream SPDY codec of the version getVersion
\* returns when the name is a SPDY token, and no SPDY codec otherwise.
C5_SpdyCodec ==
    codecCall.kind = "makeCodec" =>
        LET version == getVersion(codecCall.chosenProto) IN
        /\ version # NoVersion =>
              codecCall.codec = SPDYCodec("UPSTREAM", version)
        /\ version = NoVersion => codecCall.codec.type # "SPDY"

\* makeCodec was called for spdy/3.1 with the force flag set.
C5_Witness ==
    /\ codecCall.kind = "makeCodec"
    /\ codecCall.chosenProto = "spdy/3.1"
    /\ codecCall.force
    /\ codecCall.codec.version = "SPDY3_1"

\* C6 as stated: the four HTTP/2 identifiers yield HTTP/2 and every other
\* name yields HTTP/1.x.
C6_Original ==
    codecCall.kind = "makeCodec" =>
        IF codecCall.chosenProto \in HTTP2Names
        THEN codecCall.codec.type = "HTTP2"
        ELSE codecCall.codec.type = "HTTP1x"

\* C6, amended: the four HTTP/2 identifiers yield the upstream HTTP/2 codec;
\* every other name that is not a SPDY token, the empty name included,
\* yields the HTTP/1.x codec.
C6_Http2Codec ==
    codecCall.kind = "makeCodec" =>
        LET p == codecCall.chosenProto IN
        /\ p \in HTTP2Names => codecCall.codec = HTTP2Codec("UPSTREAM")
        /\ (p \notin HTTP2Names /\ getVersion(p) = NoVersion) =>
              codecCall.codec.type = "HTTP1x"
        /\ p \notin HTTP2Names => codecCall.codec.type # "HTTP2"

\* makeCodec was called for the draft identifier and built HTTP/2.
C6_Witness ==
    /\ codecCall.kind = "makeCodec"
    /\ codecCall.chosenProto = kProtocolDraftString
    /\ codecCall.codec.type = "HTTP2"

\* C7: when the override flag is set as a connection succeeds and the codec
\* is HTTP/1.x, the codec has force-1.1 enabled; the kind of codec does not
\* depend on the flag.
C7_ForceOverride ==
    [][\A s \in Socks :
          (Succeeds(s) /\ lastCall'.kind = "connectSuccess") =>
              LET codec == lastCall'.session.codec
                  flag == conn.forceHTTP1xCodecTo1_1_
              IN /\ (flag /\ codec.type = "HTTP1x") => codec.force1_1
                 /\ codec.type = makeCodec(ChosenName(s), ~flag).type]_vars

\* A secure attempt negotiated an unknown name with the flag set and got an
\* HTTP/1.x codec forced to 1.1.
C7_Witness ==
    /\ lastCall.kind = "connectSuccess"
    /\ lastCall.session.info.secure
    /\ negotiated.appProtocol = "bogus"
    /\ conn.forceHTTP1xCodecTo1_1_
    /\ lastCall.session.codec = HTTP1xCodec("UPSTREAM", TRUE)

\* C8: whenever the transport reports success the caller receives
\* connectSuccess with a Session on that socket, whatever name was
\* negotiated or hinted; for a name that is neither a SPDY token nor an
\* HTTP/2 identifier the Session's codec is HTTP/1.x.
C8_UnknownFallsBack ==
    [][\A s \in Socks :
          Succeeds(s) =>
              /\ lastCall'.kind = "connectSuccess"
              /\ lastCall'.session.sock = s
              /\ calls'[s] = <<"connectSuccess">>
              /\ (getVersion(ChosenName(s)) = NoVersion
                  /\ ChosenName(s) \notin HTTP2Names)
                    => lastCall'.session.codec.type = "HTTP1x"]_vars

\* A plaintext attempt hinted with an unknown name: the error was logged and
\* the Session was delivered with an HTTP/1.x codec.
C8_Witness ==
    /\ lastCall.kind = "connectSuccess"
    /\ ~lastCall.session.info.secure
    /\ codecCall.chosenProto = "bogus"
    /\ codecCall.logged
    /\ lastCall.session.codec.type = "HTTP1x"

\* C9: a connectSSL attempt whose transport succeeds having negotiated h2
\* delivers a Session with the HTTP/2 codec and secure = true.
C9_SecureH2 ==
    [][\A s \in Socks :
          (Succeeds(s) /\ socks'[s].ssl
           /\ negotiated'.appProtocol = kProtocolString) =>
              /\ lastCall'.kind = "connectSuccess"
              /\ lastCall'.session.sock = s
              /\ lastCall'.session.codec = HTTP2Codec("UPSTREAM")
              /\ lastCall'.session.info.secure = TRUE]_vars

\* A TLS attempt negotiated h2 while the plaintext hint said otherwise.
C9_Witness ==
    /\ lastCall.kind = "connectSuccess"
    /\ socks[lastCall.session.sock].ssl
    /\ negotiated.appProtocol = kProtocolString
    /\ conn.plaintextProtocol_ = "spdy/3"
    /\ lastCall.session.codec.type = "HTTP2"

\* C10: a plaintext attempt that succeeds with no plaintext hint set
\* delivers a Session with the HTTP/1.x codec and secure = false.
C10_PlainDefault ==
    [][\A s \in Socks :
          (Succeeds(s) /\ ~socks'[s].ssl /\ conn.plaintextProtocol_ = "") =>
              /\ lastCall'.kind = "connectSuccess"
              /\ lastCall'.session.sock = s
              /\ lastCall'.session.codec.type = "HTTP1x"
              /\ lastCall'.session.info.secure = FALSE]_vars

\* The first attempt was secure and succeeded; the second, plaintext and
\* unhinted, delivered an insecure Session.
C10_Witness ==
    /\ socks[1].ssl
    /\ socks[1].state = "established"
    /\ ~socks[2].ssl
    /\ socks[2].state = "established"
    /\ conn.plaintextProtocol_ = ""
    /\ lastCall.kind = "connectSuccess"
    /\ lastCall.session.sock = 2
    /\ ~lastCall.session.info.secure

\* C11: timeElapsed() is zero as long as no connect/connectSSL was called;
\* it is zero at the moment an attempt starts and, while that attempt is in
\* flight, grows by exactly what the clock advances, so it is the time since
\* the most recent connect start and never decreases during an attempt.
C11_TimeElapsed ==
    [][/\ (\A s \in Socks : socks[s].state = "unused")
             => timeElapsed(World) = 0
       /\ (\E s \in Socks : /\ socks[s].state = "unused"
                             /\ socks'[s].state # "unused")
             => timeElapsed([World EXCEPT !.conn = conn', !.now = now']) = 0
       /\ (isBusy(conn) /\ conn'.socket_ = conn.socket_) =>
             /\ timeElapsed([World EXCEPT !.conn = conn', !.now = now'])
                  = timeElapsed(World) + (now' - now)
             /\ timeElapsed([World EXCEPT !.conn = conn', !.now = now'])
                  >= timeElapsed(World)]_vars

\* An attempt is in flight and the clock has advanced since it started.
C11_Witness ==
    /\ isBusy(conn)
    /\ socks[conn.socket_].state = "connecting"
    /\ timeElapsed(World) = 1

\* C12: at most one attempt is outstanding, and a connect/connectSSL made
\* while busy does not silently corrupt state: there are never two live
\* attempts, the caller is never handed the error the teardown of the
\* replaced attempt generates, and an attempt that is in flight is owned by
\* the Connector (and its socket has not been destroyed).
C12_NoSilentCorruption ==
    /\ Cardinality({s \in Socks : socks[s].state = "connecting"}) <= 1
    /\ \A s \in Socks :
          socks[s].err = ClosedLocally => calls[s] = <<>>
    /\ \A s \in Socks :
          socks[s].state = "connecting" =>
              conn.socket_ = s /\ ~socks[s].freed

\* The Sessions that have been handed to the caller hold socket s.
SessionHolds(s) == \E i \in 1..Len(calls[s]) : calls[s][i] = "connectSuccess"

\* C13: a socket has one owner or none.  While its connect is in flight the
\* Connector owns it and no Session does; once it succeeded exactly the
\* Session owns it (the Connector has given it up before the callback is
\* made); once it failed or was reset it has been destroyed and nobody owns
\* it.  The Connector never holds a socket whose terminal callback fired.
C13_Ownership ==
    /\ \A s \in Socks :
          /\ ~(conn.socket_ = s /\ SessionHolds(s))
          /\ socks[s].state = "connecting" =>
                conn.socket_ = s /\ ~SessionHolds(s) /\ ~socks[s].freed
          /\ socks[s].state = "established" =>
                conn.socket_ # s /\ SessionHolds(s) /\ ~socks[s].freed
          /\ socks[s].state \in {"failed", "closed"} =>
                conn.socket_ # s /\ ~SessionHolds(s) /\ socks[s].freed
    /\ isBusy(conn) => socks[conn.socket_].state = "connecting"

\* The caller is inside connectSuccess for socket 2: the Session owns the
\* socket and the Connector holds none; socket 1 was dropped on failure.
C13_Witness ==
    /\ socks[1].state = "failed"
    /\ socks[1].freed
    /\ socks[2].state = "established"
    /\ SessionHolds(2)
    /\ stack # <<>>
    /\ stack[Len(stack)].cb = "connectSuccess"
    /\ conn.socket_ = NULL

\* C14: on success the codec is resolved from the name the socket negotiated
\* when the attempt is secure and from the plaintext hint when it is not,
\* never the other way round.
C14_NameSource ==
    [][\A s \in Socks :
          (Succeeds(s) /\ lastCall'.kind = "connectSuccess") =>
              /\ lastCall'.session.info.secure = socks'[s].ssl
              /\ codecCall'.chosenProto =
                    (IF socks'[s].ssl THEN negotiated'.appProtocol
                                      ELSE conn.plaintextProtocol_)
              /\ lastCall'.session.codec =
                    makeCodec(IF socks'[s].ssl THEN negotiated'.appProtocol
                                               ELSE conn.plaintextProtocol_,
                              conn.forceHTTP1xCodecTo1_1_)]_vars

\* A secure attempt negotiated the empty name while the plaintext hint was
\* h2: the Session's codec is HTTP/1.x.
C14_Witness ==
    /\ lastCall.kind = "connectSuccess"
    /\ lastCall.session.info.secure
    /\ negotiated.appProtocol = ""
    /\ conn.plaintextProtocol_ = kProtocolString
    /\ codecCall.chosenProto = ""
    /\ lastCall.session.codec.type = "HTTP1x"

\* C15: a success event that arrives while the callback is detached is a
\* no-op: no Session, no makeCodec call, no callback to the caller, no crash,
\* and transportInfo_, connectStart_ and the rest of the Connector are as
\* reset() alone leaves them (socket_ cleared by reset(), cb_ restored).
C15_DetachedSuccessNoOp ==
    [][ResetSuccessInTeardown =>
          /\ calls' = calls
          /\ lastCall' = lastCall
          /\ stack' = stack
          /\ codecCall' = codecCall
          /\ aborted' = aborted
          /\ conn' = [conn EXCEPT !.socket_ = NULL]]_vars

\* Socket 1 reported success during its teardown and the caller received
\* nothing for it; the Connector went on to a second attempt.
C15_Witness ==
    /\ socks[1].state = "established"
    /\ socks[1].freed
    /\ calls[1] = <<>>
    /\ socks[2].state = "connecting"
    /\ conn.socket_ = 2
    /\ conn.cb_ = CallbackPtr

\* C16: connect and connectSSL replace the transport info by a default
\* record with only the secure flag set, and the info a Session is delivered
\* with holds nothing but defaults and what was read for this attempt: a
\* plaintext Session has no TLS field set, a secure one has exactly the
\* values its own socket negotiated and its own setup time.
C16_FreshMetadata ==
    [][\A s \in Socks :
          /\ (socks[s].state = "unused" /\ socks'[s].state = "connecting") =>
                conn'.transportInfo_ =
                    [TransportInfo EXCEPT !.secure = socks'[s].ssl]
          /\ (Succeeds(s) /\ lastCall'.kind = "connectSuccess") =>
                lastCall'.session.info =
                    IF socks'[s].ssl
                    THEN [secure |-> TRUE,
                          appProtocol |-> negotiated'.appProtocol,
                          sslSetupTime |-> now' - conn.connectStart_,
                          sslCipher |-> negotiated'.cipher,
                          sslVersion |-> negotiated'.version,
                          sslResume |-> negotiated'.resume,
                          acceptTime |-> now']
                    ELSE [TransportInfo EXCEPT !.secure = FALSE,
                                               !.acceptTime = now']]_vars

\* The first attempt was secure and delivered its Session; the second one
\* was plaintext and its Session carries no TLS field.
C16_Witness ==
    /\ socks[1].ssl
    /\ socks[1].state = "established"
    /\ ~socks[2].ssl
    /\ socks[2].state = "established"
    /\ lastCall.kind = "connectSuccess"
    /\ lastCall.session.sock = 2
    /\ lastCall.session.info.appProtocol = NullStr
    /\ lastCall.session.info.sslCipher = NullStr
    /\ lastCall.session.info.sslVersion = 0
    /\ lastCall.session.info.sslResume = "NA"
    /\ lastCall.session.info.sslSetupTime = 0

\* C17: IDLE -> CONNECTING -> {SUCCEEDED | FAILED} -> IDLE.  Every attempt
\* that is in flight eventually leaves the Connector idle again (by the
\* transport's terminal event or by reset()), and the caller's callback is
\* not invoked as long as no attempt has been started.
C17_Lifecycle ==
    /\ [](isBusy(conn) => <>(~isBusy(conn)))
    /\ [][(isBusy(conn) /\ ~isBusy(conn')) =>
             socks'[conn.socket_].state \in {"established", "failed", "closed"}]_vars
    /\ [][(~isBusy(conn) /\ isBusy(conn')) =>
             (socks[conn'.socket_].state = "unused"
              /\ socks'[conn'.socket_].state = "connecting")]_vars
    /\ []((\A s \in Socks : socks[s].state = "unused")
            => (lastCall = NoCall /\ stack = <<>>))

\* Both attempts have run their course, one to FAILED and one to SUCCEEDED,
\* the callbacks have returned and the Connector is idle.
C17_Witness ==
    /\ socks[1].state = "failed"
    /\ socks[2].state = "established"
    /\ stack = <<>>
    /\ ~isBusy(conn)

\* C18: when the caller's connectSuccess or connectError is entered the
\* Connector is already idle, and when that callback returns the handler
\* changes nothing.  So an attempt started (or a reset made) inside the
\* callback is in flight (or idle) exactly as the caller left it once the
\* handler has unwound, and no step of the Connector frees the socket of a
\* Session it has delivered.
C18_ReentrantSafe ==
    [][/\ Len(stack') > Len(stack) => ~isBusy(conn')
       /\ Len(stack') < Len(stack) =>
             (conn' = conn /\ socks' = socks /\ calls' = calls /\ lastCall' = lastCall)
       /\ (stack # <<>> /\ Len(stack') = Len(stack) /\ isBusy(conn')
            /\ conn'.socket_ # conn.socket_) =>
             (socks'[conn'.socket_].state = "connecting"
              /\ ~socks'[conn'.socket_].freed)
       /\ \A s \in Socks :
             (socks[s].state = "established" /\ ~socks[s].freed) =>
                (socks'[s].state = "established" /\ ~socks'[s].freed)]_vars

\* The caller is still inside connectSuccess for socket 1 and has started
\* the next attempt from there: socket 2 is in flight, the Session on
\* socket 1 is intact.
C18_Witness ==
    /\ stack # <<>>
    /\ stack[Len(stack)].cb = "connectSuccess"
    /\ lastCall.kind = "connectSuccess"
    /\ lastCall.session.sock = 1
    /\ socks[1].state = "established"
    /\ ~socks[1].freed
    /\ conn.socket_ = 2
    /\ socks[2].state = "connecting"

\* C19: no stale outcome.  Every callback the caller receives is about the
\* attempt started last: it carries that socket's own error, or a Session
\* wrapping that socket with that attempt's metadata.  An attempt that
\* reset() cancelled is never reported, neither at the reset nor later.
C19_NoStaleOutcome ==
    [][\A s \in Socks :
          /\ socks'[s].state = "closed" => calls'[s] = <<>>
          /\ Len(calls'[s]) > Len(calls[s]) =>
                /\ socks[s].state \in {"unused", "connecting"}
                /\ socks'[s].state \in {"established", "failed"}
                /\ \A o \in Socks : o > s => socks'[o].state = "unused"
                /\ lastCall'.kind = "connectError" =>
                      lastCall'.ex = [type |-> socks'[s].err, sock |-> s]
                /\ lastCall'.kind = "connectSuccess" =>
                      /\ lastCall'.session.sock = s
                      /\ lastCall'.session.info.secure = socks'[s].ssl
                      /\ lastCall'.session.info.acceptTime = now'
                      /\ lastCall'.session.info.appProtocol =
                            (IF socks'[s].ssl THEN negotiated'.appProtocol ELSE NullStr)]_vars

\* Attempt 1 was cancelled by reset() and never reported; attempt 2, a TLS
\* attempt started afterwards, delivered its own Session.
C19_Witness ==
    /\ socks[1].state = "closed"
    /\ calls[1] = <<>>
    /\ socks[2].state = "established"
    /\ socks[2].ssl
    /\ calls[2] = <<"connectSuccess">>
    /\ lastCall.kind = "connectSuccess"
    /\ lastCall.session.sock = 2

\* C20: between public operations cb_ is the non-null callback given at
\* construction (it is detached only inside reset(), which puts back the
\* reference it saved), and reset() on an idle Connector changes nothing
\* and calls nothing; the destructor on an idle Connector only ends the
\* object's life.
C20_CallbackAttached ==
    /\ [](conn.cb_ = CallbackPtr)
    /\ [][(Reset /\ ~isBusy(conn)) => UNCHANGED vars]_vars
    /\ [][(Destructor /\ ~isBusy(conn)) =>
             UNCHANGED <<conn, socks, now, stack, calls, lastCall, codecCall,
                         negotiated, aborted>>]_vars

\* reset() cancelled attempt 1 with the callback detached; the callback was
\* put back, since the failure of attempt 2 was reported through it.
C20_Witness ==
    /\ socks[1].state = "closed"
    /\ calls[1] = <<>>
    /\ socks[2].state = "failed"
    /\ calls[2] = <<"connectError">>
    /\ conn.cb_ = CallbackPtr

====
